---- MODULE Spec2Model ----
(***************************************************************************)
(* Model of eseries.py: lookup of IEC 60063 preferred numbers.             *)
(*                                                                         *)
(* Number representation.  A Python float is modelled as an exact rational *)
(* <<num, den>> in lowest terms with den > 0; the non-finite floats are    *)
(* <<1, 0>> (inf), <<-1, 0>> (-inf) and <<0, 0>> (nan).  +, -, *, / and    *)
(* the comparisons are exact.  Only the transcendental library functions   *)
(* are approximate, as they are for floats: math.log10 is a fixed-point    *)
(* logarithm (LogOne units per decade, error below 1e-4 of a decade) and   *)
(* pow(x, 1.5) is computed to four decimal places.  Both errors are far    *)
(* below the epsilon erange uses to widen its search (at least 0.0026 of a *)
(* decade), which is the slack the code itself relies on.                  *)
(***************************************************************************)
EXTENDS Integers, Sequences, FiniteSets, TLC

VARIABLES
    series_key,     \* erange: argument series_key
    start,          \* erange: argument start
    stop,           \* erange: argument stop
    pc,             \* erange: position of the generator frame
    start_decade,   \* erange: local start_decade (after the wrap)
    start_index,    \* erange: local start_index (after the wrap)
    stop_decade,    \* erange: local stop_decade
    stop_index,     \* erange: local stop_index
    decade,         \* erange: loop variable decade at the last yield
    index,          \* erange: loop variable index at the last yield
    yielded,        \* erange: the values handed to the consumer so far
    error,          \* erange: the exception raised out of the generator
    f_key,          \* find_*: argument series_key
    value,          \* find_*: argument value
    op,             \* find_*: which function was called, <<name, num>>
    result          \* find_*: what the call returned or raised

gen_vars == <<series_key, start, stop, pc, start_decade, start_index,
              stop_decade, stop_index, decade, index, yielded, error>>
find_vars == <<f_key, value, op, result>>
vars == <<gen_vars, find_vars>>

-----------------------------------------------------------------------------
(* Bounds of the model.                                                    *)

\* Inputs are the multiples of 1/GridDen.
GridDen == 2
\* erange arguments are k/GridDen for k in 0..MaxRangeNum.
MaxRangeNum == 24
\* find_* arguments are k/GridDen for k in 1..MaxFindNum.
MaxFindNum == 240
\* num arguments of find_nearest_few are 0..MaxNumArg.
MaxNumArg == 4

-----------------------------------------------------------------------------
(* ESeries and the tables _E.                                              *)

ESeries == {3, 6, 12, 24, 48, 96, 192}

_E ==
       3 :> << 10, 22, 47 >>
    @@ 6 :> << 10, 15, 22, 33, 47, 68 >>
    @@ 12 :> << 10, 12, 15, 18, 22, 27, 33, 39, 47, 56, 68, 82 >>
    @@ 24 :> << 10, 11, 12, 13, 15, 16, 18, 20, 22, 24, 27, 30, 33, 36, 39, 43, 47, 51, 56, 62,
                 68, 75, 82, 91 >>
    @@ 48 :> << 100, 105, 110, 115, 121, 127, 133, 140, 147, 154, 162, 169, 178, 187, 196, 205,
                 215, 226, 237, 249, 261, 274, 287, 301, 316, 332, 348, 365, 383, 402, 422, 442,
                 464, 487, 511, 536, 562, 590, 619, 649, 681, 715, 750, 787, 825, 866, 909, 953 >>
    @@ 96 :> << 100, 102, 105, 107, 110, 113, 115, 118, 121, 124, 127, 130, 133, 137, 140, 143,
                 147, 150, 154, 158, 162, 165, 169, 174, 178, 182, 187, 191, 196, 200, 205, 210,
                 215, 221, 226, 232, 237, 243, 249, 255, 261, 267, 274, 280, 287, 294, 301, 309,
                 316, 324, 332, 340, 348, 357, 365, 374, 383, 392, 402, 412, 422, 432, 442, 453,
                 464, 475, 487, 499, 511, 523, 536, 549, 562, 576, 590, 604, 619, 634, 649, 665,
                 681, 698, 715, 732, 750, 768, 787, 806, 825, 845, 866, 887, 909, 931, 953, 976 >>
    @@ 192 :> << 100, 101, 102, 104, 105, 106, 107, 109, 110, 111, 113, 114, 115, 117, 118,
                  120, 121, 123, 124, 126, 127, 129, 130, 132, 133, 135, 137, 138, 140, 142,
                  143, 145, 147, 149, 150, 152, 154, 156, 158, 160, 162, 164, 165, 167, 169,
                  172, 174, 176, 178, 180, 182, 184, 187, 189, 191, 193, 196, 198, 200, 203,
                  205, 208, 210, 213, 215, 218, 221, 223, 226, 229, 232, 234, 237, 240, 243,
                  246, 249, 252, 255, 258, 261, 264, 267, 271, 274, 277, 280, 284, 287, 291,
                  294, 298, 301, 305, 309, 312, 316, 320, 324, 328, 332, 336, 340, 344, 348,
                  352, 357, 361, 365, 370, 374, 379, 383, 388, 392, 397, 402, 407, 412, 417,
                  422, 427, 432, 437, 442, 448, 453, 459, 464, 470, 475, 481, 487, 493, 499,
                  505, 511, 517, 523, 530, 536, 542, 549, 556, 562, 569, 576, 583, 590, 597,
                  604, 612, 619, 626, 634, 642, 649, 657, 665, 673, 681, 690, 698, 706, 715,
                  723, 732, 741, 750, 759, 768, 777, 787, 796, 806, 816, 825, 835, 845, 856,
                  866, 876, 887, 898, 909, 920, 931, 942, 953, 965, 976, 988 >>

LOG10_TABLE ==
    << 0, 4321, 8600, 12837, 17033, 21189, 25306, 29384, 33424, 37426, 41393, 45323, 49218,
       53078, 56905, 60698, 64458, 68186, 71882, 75547, 79181, 82785, 86360, 89905, 93422,
       96910, 100371, 103804, 107210, 110590, 113943, 117271, 120574, 123852, 127105, 130334,
       133539, 136721, 139879, 143015, 146128, 149219, 152288, 155336, 158362, 161368, 164353,
       167317, 170262, 173186, 176091, 178977, 181844, 184691, 187521, 190332, 193125, 195900,
       198657, 201397, 204120, 206826, 209515, 212188, 214844, 217484, 220108, 222716, 225309,
       227887, 230449, 232996, 235528, 238046, 240549, 243038, 245513, 247973, 250420, 252853,
       255273, 257679, 260071, 262451, 264818, 267172, 269513, 271842, 274158, 276462, 278754,
       281033, 283301, 285557, 287802, 290035, 292256, 294466, 296665, 298853, 301030, 303196,
       305351, 307496, 309630, 311754, 313867, 315970, 318063, 320146, 322219, 324282, 326336,
       328380, 330414, 332438, 334454, 336460, 338456, 340444, 342423, 344392, 346353, 348305,
       350248, 352183, 354108, 356026, 357935, 359835, 361728, 363612, 365488, 367356, 369216,
       371068, 372912, 374748, 376577, 378398, 380211, 382017, 383815, 385606, 387390, 389166,
       390935, 392697, 394452, 396199, 397940, 399674, 401401, 403121, 404834, 406540, 408240,
       409933, 411620, 413300, 414973, 416641, 418301, 419956, 421604, 423246, 424882, 426511,
       428135, 429752, 431364, 432969, 434569, 436163, 437751, 439333, 440909, 442480, 444045,
       445604, 447158, 448706, 450249, 451786, 453318, 454845, 456366, 457882, 459392, 460898,
       462398, 463893, 465383, 466868, 468347, 469822, 471292, 472756, 474216, 475671, 477121,
       478566, 480007, 481443, 482874, 484300, 485721, 487138, 488551, 489958, 491362, 492760,
       494155, 495544, 496930, 498311, 499687, 501059, 502427, 503791, 505150, 506505, 507856,
       509203, 510545, 511883, 513218, 514548, 515874, 517196, 518514, 519828, 521138, 522444,
       523746, 525045, 526339, 527630, 528917, 530200, 531479, 532754, 534026, 535294, 536558,
       537819, 539076, 540329, 541579, 542825, 544068, 545307, 546543, 547775, 549003, 550228,
       551450, 552668, 553883, 555094, 556303, 557507, 558709, 559907, 561101, 562293, 563481,
       564666, 565848, 567026, 568202, 569374, 570543, 571709, 572872, 574031, 575188, 576341,
       577492, 578639, 579784, 580925, 582063, 583199, 584331, 585461, 586587, 587711, 588832,
       589950, 591065, 592177, 593286, 594393, 595496, 596597, 597695, 598791, 599883, 600973,
       602060, 603144, 604226, 605305, 606381, 607455, 608526, 609594, 610660, 611723, 612784,
       613842, 614897, 615950, 617000, 618048, 619093, 620136, 621176, 622214, 623249, 624282,
       625312, 626340, 627366, 628389, 629410, 630428, 631444, 632457, 633468, 634477, 635484,
       636488, 637490, 638489, 639486, 640481, 641474, 642465, 643453, 644439, 645422, 646404,
       647383, 648360, 649335, 650308, 651278, 652246, 653213, 654177, 655138, 656098, 657056,
       658011, 658965, 659916, 660865, 661813, 662758, 663701, 664642, 665581, 666518, 667453,
       668386, 669317, 670246, 671173, 672098, 673021, 673942, 674861, 675778, 676694, 677607,
       678518, 679428, 680336, 681241, 682145, 683047, 683947, 684845, 685742, 686636, 687529,
       688420, 689309, 690196, 691081, 691965, 692847, 693727, 694605, 695482, 696356, 697229,
       698101, 698970, 699838, 700704, 701568, 702431, 703291, 704151, 705008, 705864, 706718,
       707570, 708421, 709270, 710117, 710963, 711807, 712650, 713491, 714330, 715167, 716003,
       716838, 717671, 718502, 719331, 720159, 720986, 721811, 722634, 723456, 724276, 725095,
       725912, 726727, 727541, 728354, 729165, 729974, 730782, 731589, 732394, 733197, 733999,
       734800, 735599, 736397, 737193, 737987, 738781, 739572, 740363, 741152, 741939, 742725,
       743510, 744293, 745075, 745855, 746634, 747412, 748188, 748963, 749736, 750508, 751279,
       752048, 752816, 753583, 754348, 755112, 755875, 756636, 757396, 758155, 758912, 759668,
       760422, 761176, 761928, 762679, 763428, 764176, 764923, 765669, 766413, 767156, 767898,
       768638, 769377, 770115, 770852, 771587, 772322, 773055, 773786, 774517, 775246, 775974,
       776701, 777427, 778151, 778874, 779596, 780317, 781037, 781755, 782473, 783189, 783904,
       784617, 785330, 786041, 786751, 787460, 788168, 788875, 789581, 790285, 790988, 791691,
       792392, 793092, 793790, 794488, 795185, 795880, 796574, 797268, 797960, 798651, 799341,
       800029, 800717, 801404, 802089, 802774, 803457, 804139, 804821, 805501, 806180, 806858,
       807535, 808211, 808886, 809560, 810233, 810904, 811575, 812245, 812913, 813581, 814248,
       814913, 815578, 816241, 816904, 817565, 818226, 818885, 819544, 820201, 820858, 821514,
       822168, 822822, 823474, 824126, 824776, 825426, 826075, 826723, 827369, 828015, 828660,
       829304, 829947, 830589, 831230, 831870, 832509, 833147, 833784, 834421, 835056, 835691,
       836324, 836957, 837588, 838219, 838849, 839478, 840106, 840733, 841359, 841985, 842609,
       843233, 843855, 844477, 845098, 845718, 846337, 846955, 847573, 848189, 848805, 849419,
       850033, 850646, 851258, 851870, 852480, 853090, 853698, 854306, 854913, 855519, 856124,
       856729, 857332, 857935, 858537, 859138, 859739, 860338, 860937, 861534, 862131, 862728,
       863323, 863917, 864511, 865104, 865696, 866287, 866878, 867467, 868056, 868644, 869232,
       869818, 870404, 870989, 871573, 872156, 872739, 873321, 873902, 874482, 875061, 875640,
       876218, 876795, 877371, 877947, 878522, 879096, 879669, 880242, 880814, 881385, 881955,
       882525, 883093, 883661, 884229, 884795, 885361, 885926, 886491, 887054, 887617, 888179,
       888741, 889302, 889862, 890421, 890980, 891537, 892095, 892651, 893207, 893762, 894316,
       894870, 895423, 895975, 896526, 897077, 897627, 898176, 898725, 899273, 899821, 900367,
       900913, 901458, 902003, 902547, 903090, 903633, 904174, 904716, 905256, 905796, 906335,
       906874, 907411, 907949, 908485, 909021, 909556, 910091, 910624, 911158, 911690, 912222,
       912753, 913284, 913814, 914343, 914872, 915400, 915927, 916454, 916980, 917506, 918030,
       918555, 919078, 919601, 920123, 920645, 921166, 921686, 922206, 922725, 923244, 923762,
       924279, 924796, 925312, 925828, 926342, 926857, 927370, 927883, 928396, 928908, 929419,
       929930, 930440, 930949, 931458, 931966, 932474, 932981, 933487, 933993, 934498, 935003,
       935507, 936011, 936514, 937016, 937518, 938019, 938520, 939020, 939519, 940018, 940516,
       941014, 941511, 942008, 942504, 943000, 943495, 943989, 944483, 944976, 945469, 945961,
       946452, 946943, 947434, 947924, 948413, 948902, 949390, 949878, 950365, 950851, 951338,
       951823, 952308, 952792, 953276, 953760, 954243, 954725, 955207, 955688, 956168, 956649,
       957128, 957607, 958086, 958564, 959041, 959518, 959995, 960471, 960946, 961421, 961895,
       962369, 962843, 963316, 963788, 964260, 964731, 965202, 965672, 966142, 966611, 967080,
       967548, 968016, 968483, 968950, 969416, 969882, 970347, 970812, 971276, 971740, 972203,
       972666, 973128, 973590, 974051, 974512, 974972, 975432, 975891, 976350, 976808, 977266,
       977724, 978181, 978637, 979093, 979548, 980003, 980458, 980912, 981366, 981819, 982271,
       982723, 983175, 983626, 984077, 984527, 984977, 985426, 985875, 986324, 986772, 987219,
       987666, 988113, 988559, 989005, 989450, 989895, 990339, 990783, 991226, 991669, 992111,
       992554, 992995, 993436, 993877, 994317, 994757, 995196, 995635, 996074, 996512, 996949,
       997386, 997823, 998259, 998695, 999131, 999565, 1000000 >>

series(key) == _E[key]

-----------------------------------------------------------------------------
(* Floats as exact rationals.                                              *)

Abs(n) == IF n < 0 THEN -n ELSE n

RECURSIVE GCD(_, _)
GCD(a, b) == IF b = 0 THEN a ELSE GCD(b, a % b)

RECURSIVE Pow10(_)
Pow10(n) == IF n = 0 THEN 1 ELSE 10 * Pow10(n - 1)

\* The float n/d, d > 0, in lowest terms; g is gcd(|n|, d).
Reduced(n, d, g) == <<n \div g, d \div g>>
Rat(n, d) == Reduced(n, d, GCD(Abs(n), d))

Inf == <<1, 0>>
NaN == <<0, 0>>
Zero == <<0, 1>>

\* math.isfinite
isfinite(x) == x[2] # 0

\* Sign of a/b - c/d for a, c >= 0 and b, d > 0, by continued fractions;
\* no product is formed.
RECURSIVE CmpPos(_, _, _, _)
CmpPos(a, b, c, d) ==
    IF a \div b < c \div d THEN -1
    ELSE IF a \div b > c \div d THEN 1
    ELSE IF a % b = 0 /\ c % d = 0 THEN 0
    ELSE IF a % b = 0 THEN -1
    ELSE IF c % d = 0 THEN 1
    ELSE CmpPos(d, c % d, b, a % b)

\* Sign of x - y for finite floats x, y.
Cmp(x, y) ==
    IF x[1] < 0 /\ y[1] >= 0 THEN -1
    ELSE IF x[1] >= 0 /\ y[1] < 0 THEN 1
    ELSE CmpPos(IF x[1] < 0 THEN -y[1] ELSE x[1], IF x[1] < 0 THEN y[2] ELSE x[2],
                IF x[1] < 0 THEN -x[1] ELSE y[1], IF x[1] < 0 THEN x[2] ELSE y[2])

Lt(x, y) == Cmp(x, y) < 0
Le(x, y) == Cmp(x, y) <= 0
Gt(x, y) == Cmp(x, y) > 0
Ge(x, y) == Cmp(x, y) >= 0

FMul(x, y) == Rat(x[1] * y[1], x[2] * y[2])
FDiv(x, y) == Rat((IF y[1] < 0 THEN -1 ELSE 1) * x[1] * y[2], x[2] * Abs(y[1]))
FSub(x, y) == Rat(x[1] * y[2] - y[1] * x[2], x[2] * y[2])
FAbs(x) == <<Abs(x[1]), x[2]>>

\* math.pow(10, n) for an integer n
FPow10(n) == IF n >= 0 THEN <<Pow10(Abs(n)), 1>> ELSE <<1, Pow10(Abs(n))>>

-----------------------------------------------------------------------------
(* math.log10 in fixed point: LogOne units are one decade.                 *)

LogOne == 10^6

\* Number of decimal digits of n >= 1.
RECURSIVE Digits(_)
Digits(n) == IF n < 10 THEN 1 ELSE 1 + Digits(n \div 10)

\* log10 of a number in [1, 10) given by its first five digits m5:
\* LOG10_TABLE on the first three, linear interpolation on the next two.
Interpolate(i, f) ==
    LOG10_TABLE[i] + ((LOG10_TABLE[i + 1] - LOG10_TABLE[i]) * f) \div 100
Log10Mantissa(m5) == Interpolate((m5 \div 100) - 99, m5 % 100)

\* log10 of the integer n >= 1 of k digits.
Log10Digits(n, k) ==
    (k - 1) * LogOne
      + Log10Mantissa(IF k <= 5 THEN n * Pow10(Abs(5 - k)) ELSE n \div Pow10(Abs(k - 5)))
Log10Nat(n) == Log10Digits(n, Digits(n))

\* math.log10 of a finite float x > 0.
log10(x) == Log10Nat(x[1]) - Log10Nat(x[2])

\* math.floor of a fixed-point logarithm.
floor(l) == l \div LogOne

\* Integer square root, rounded to nearest.
RECURSIVE ISqrtFloor(_, _, _)
ISqrtFloor(n, lo, hi) ==
    IF lo >= hi THEN lo
    ELSE IF ((lo + hi + 1) \div 2) * ((lo + hi + 1) \div 2) <= n
         THEN ISqrtFloor(n, (lo + hi + 1) \div 2, hi)
         ELSE ISqrtFloor(n, lo, (lo + hi + 1) \div 2 - 1)
RoundRoot(n, r) == IF n - r * r > r THEN r + 1 ELSE r
ISqrt(n) == RoundRoot(n, ISqrtFloor(n, 0, 46340))

\* pow(x, 1.5) to four decimal places; x4 is x in units of 1/10000.
Pow15Fixed(x4) == Rat((x4 * ISqrt(x4 * 10000) + 5000) \div 10000, 10000)
pow_1_5(x) == Pow15Fixed((x[1] * 10000 + x[2] \div 2) \div x[2])

-----------------------------------------------------------------------------
(* Module-level tables derived from _E.                                    *)

\* LOG10_MANTISSA_E[num] = list(log10(x) % 1 for x in series)
LOG10_MANTISSA_E ==
    [num \in ESeries |->
        [i \in 1..Len(_E[num]) |-> log10(<<_E[num][i], 1>>) % LogOne]]

\* max(ratios)
MaxOf(ratios) == CHOOSE m \in ratios : \A r \in ratios : Ge(m, r)

\* GEOMETRIC_SCALE_E[num] = max(b/a for a, b in zip(series, series[1:]))
GEOMETRIC_SCALE_E ==
    [num \in ESeries |->
        MaxOf({Rat(_E[num][i + 1], _E[num][i]) : i \in 1..(Len(_E[num]) - 1)})]

-----------------------------------------------------------------------------
(* Helpers of erange.                                                      *)

\* 1e-200 needs a 200-digit denominator; the floor is modelled by 1e-9.
\* Every positive float the model forms is above both, and zero is below
\* both, so start < _MINIMUM_E_VALUE has the outcome it has in the code.
_MINIMUM_E_VALUE == <<1, 10^9>>

\* bisect.bisect_left(a, x); indexes are 0-based as in Python
RECURSIVE bisect_left_loop(_, _, _, _)
bisect_left_loop(a, x, lo, hi) ==
    IF lo < hi
    THEN IF a[(lo + hi) \div 2 + 1] < x
         THEN bisect_left_loop(a, x, (lo + hi) \div 2 + 1, hi)
         ELSE bisect_left_loop(a, x, lo, (lo + hi) \div 2)
    ELSE lo
bisect_left(a, x) == bisect_left_loop(a, x, 0, Len(a))

\* bisect.bisect_right(a, x)
RECURSIVE bisect_right_loop(_, _, _, _)
bisect_right_loop(a, x, lo, hi) ==
    IF lo < hi
    THEN IF x < a[(lo + hi) \div 2 + 1]
         THEN bisect_right_loop(a, x, lo, (lo + hi) \div 2)
         ELSE bisect_right_loop(a, x, (lo + hi) \div 2 + 1, hi)
    ELSE lo
bisect_right(a, x) == bisect_right_loop(a, x, 0, Len(a))

\* divmod(value, 1) of a fixed-point logarithm
_decade_mantissa(l) == <<l \div LogOne, l % LogOne>>

is_integral(f) == f = floor(f) * LogOne

\* <<TRUE, int(f)>>, or <<FALSE, 0>> where the code raises ValueError
_try_integral(f) == IF ~is_integral(f) THEN <<FALSE, 0>> ELSE <<TRUE, floor(f)>>

\* round(x, ndigits): x to ndigits decimal places, ties to even.  q and r
\* are quotient and remainder of x * 10^ndigits = s[1] / s[2].
RoundHalfEven(q, r, d) ==
    IF 2 * r > d \/ (2 * r = d /\ q % 2 = 1) THEN q + 1 ELSE q
RoundScaled(s, ndigits) ==
    FMul(<<RoundHalfEven(s[1] \div s[2], s[1] % s[2], s[2]), 1>>, FPow10(-ndigits))
round(x, ndigits) == RoundScaled(FMul(x, FPow10(ndigits)), ndigits)

_round_sig(x, figures) ==
    IF x = Zero THEN Zero
    ELSE round(x, figures - floor(log10(FAbs(x))) - 1)

-----------------------------------------------------------------------------
(* erange.  An exception is <<type, format string, arguments>>.            *)

\* lines 168-177: the exception for an invalid range, <<>> for a valid one
RangeError(a, b) ==
    IF ~isfinite(a)
    THEN <<"ValueError", "Start value {} is not finite", <<a>>>>
    ELSE IF ~isfinite(b)
    THEN <<"ValueError", "Stop value {} is not finite", <<b>>>>
    ELSE IF Lt(a, _MINIMUM_E_VALUE)
    THEN <<"ValueError",
           "{} is too small. The start value must greater than or equal to {}",
           <<b, _MINIMUM_E_VALUE>>>>
    ELSE IF Lt(b, _MINIMUM_E_VALUE)
    THEN <<"ValueError",
           "{} is too small. The stop value must greater than or equal to {}",
           <<b, _MINIMUM_E_VALUE>>>>
    ELSE IF ~Le(a, b)
    THEN <<"ValueError", "Start value {} must be less than stop value {}", <<a, b>>>>
    ELSE <<>>

\* line 182: epsilon = (series_log[-1] - series_log[-2]) / 2
HalfLastGap(series_log) ==
    (series_log[Len(series_log)] - series_log[Len(series_log) - 1]) \div 2
epsilon(key) == HalfLastGap(LOG10_MANTISSA_E[key])

\* lines 187-190: wrap to the next decade
WrapStart(series_log, sdecade, sindex) ==
    IF sindex = Len(series_log) THEN <<sdecade + 1, 0>> ELSE <<sdecade, sindex>>

\* lines 185-190; dm is _decade_mantissa(start_log)
StartIndex(series_log, dm) ==
    WrapStart(series_log, dm[1], bisect_left(series_log, dm[2]))

\* lines 184-190: <<start_decade, start_index>>
StartPosition(key, a) ==
    StartIndex(LOG10_MANTISSA_E[key], _decade_mantissa(log10(a) - epsilon(key)))

\* lines 193-194; dm is _decade_mantissa(stop_log)
StopIndex(series_log, dm) == <<dm[1], bisect_right(series_log, dm[2])>>

\* lines 192-195: <<stop_decade, stop_index>>
StopPosition(key, b) ==
    StopIndex(LOG10_MANTISSA_E[key], _decade_mantissa(log10(b) + epsilon(key)))

\* line 197
series_decade(key) == _try_integral(log10(<<series(key)[1], 1>>))

\* lines 168-197, the body of erange up to its loops: the frame
\* <<exception, <<start_decade, start_index>>, <<stop_decade, stop_index>>>>
FrameAt(sp, ep) == <<<<>>, sp, ep>>
FrameAfterChecks(key, a, b, err) ==
    IF err # <<>> THEN <<err, <<0, 0>>, <<0, 0>>>>
    ELSE IF ~series_decade(key)[1]
    THEN <<<<"ValueError", "{} does not have integral value.", <<>>>>, <<0, 0>>, <<0, 0>>>>
    ELSE FrameAt(StartPosition(key, a), StopPosition(key, b))
erange_frame(key, a, b) == FrameAfterChecks(key, a, b, RangeError(a, b))

\* rounded_result with figures=series_decade.
RoundedEntry_one_figure_short(found, d, sdec) ==
    _round_sig(FMul(<<found, 1>>, FPow10(d - sdec)), sdec)

\* lines 203-206: rounded_result of table entry i (0-based) in decade d
RoundedEntry(found, d, sdec) ==
    _round_sig(FMul(<<found, 1>>, FPow10(d - sdec)), sdec + 1)
rounded_result(key, d, i) ==
    RoundedEntry(series(key)[i + 1], d, series_decade(key)[2])

\* index_end = stop_index in every decade.
index_end_stop_index_in_every_decade(key, ep, d) == ep[2]

\* line 201: index_end of decade d; ep is <<stop_decade, stop_index>>
index_end(key, ep, d) == IF d = ep[1] THEN ep[2] ELSE Len(series(key))

\* lines 199-208: run the two loops from the iteration (d, i) on to the
\* next yield: <<TRUE, decade, index, value>>, or <<FALSE, 0, 0, Zero>>
\* when both loops end.  sp and ep are the start and stop positions.
RECURSIVE ToNextYield(_, _, _, _, _, _, _)

\* the filter start < rounded_result <= stop
YieldIfInRange_exclusive_start(key, a, b, sp, ep, d, i, r) ==
    IF Lt(a, r) /\ Le(r, b) THEN <<TRUE, d, i, r>>
    ELSE ToNextYield(key, a, b, sp, ep, d, i + 1)

\* lines 207-208; r is rounded_result
YieldIfInRange(key, a, b, sp, ep, d, i, r) ==
    IF Le(a, r) /\ Le(r, b) THEN <<TRUE, d, i, r>>
    ELSE ToNextYield(key, a, b, sp, ep, d, i + 1)

ToNextYield(key, a, b, sp, ep, d, i) ==
    IF d > ep[1] THEN <<FALSE, 0, 0, Zero>>
    ELSE IF i >= index_end(key, ep, d)
    THEN ToNextYield(key, a, b, sp, ep, d + 1, IF d + 1 = sp[1] THEN sp[2] ELSE 0)
    ELSE YieldIfInRange(key, a, b, sp, ep, d, i, rounded_result(key, d, i))

\* tuple(g) for a generator g standing before the iteration (d, i)
RECURSIVE Drain(_, _, _, _, _, _, _)
\* y is the outcome of ToNextYield: the value yielded, then the rest
DrainFrom(key, a, b, sp, ep, y) ==
    IF y[1] THEN <<y[4]>> \o Drain(key, a, b, sp, ep, y[2], y[3] + 1)
    ELSE <<>>
Drain(key, a, b, sp, ep, d, i) ==
    DrainFrom(key, a, b, sp, ep, ToNextYield(key, a, b, sp, ep, d, i))

\* tuple(erange(key, a, b)): <<exception, values>>
DrainFrame(key, a, b, frame) ==
    IF frame[1] # <<>> THEN <<frame[1], <<>>>>
    ELSE <<<<>>, Drain(key, a, b, frame[2], frame[3], frame[2][1], frame[2][2])>>
erange_tuple(key, a, b) == DrainFrame(key, a, b, erange_frame(key, a, b))

-----------------------------------------------------------------------------
(* Nearest-value search.  A call returns <<exception, values>>: exception  *)
(* is <<>> when the call returns, and values is then the returned tuple    *)
(* (of length one for the functions that return a single value).           *)

AssertionError == <<"AssertionError", "", <<>>>>

\* line 160: abs_deltas
abs_deltas(candidates, v) ==
    [i \in 1..Len(candidates) |-> FAbs(FSub(candidates[i], v))]

\* enumerate(s): the pairs <<index, s[index]>>
enumerate(s) == [i \in 1..Len(s) |-> <<i, s[i]>>]

\* s with x inserted after its first pos elements
insert_at(s, x, pos) == SubSeq(s, 1, pos) \o <<x>> \o SubSeq(s, pos + 1, Len(s))

\* the pair x put before the pairs of equal delta
insert_by_delta_before_equal(prev, x) ==
    insert_at(prev, x, Cardinality({j \in 1..Len(prev) : Lt(prev[j][2], x[2])}))

\* the pair x put into prev, which is in order of delta, behind the pairs
\* of equal delta: the sort is stable
insert_by_delta(prev, x) ==
    insert_at(prev, x, Cardinality({j \in 1..Len(prev) : Le(prev[j][2], x[2])}))

\* line 161: sorted(enumerate(abs_deltas), key=lambda x: x[1]), of the
\* first k pairs
RECURSIVE sorted_by_delta(_, _)
sorted_by_delta(pairs, k) ==
    IF k = 0 THEN <<>>
    ELSE insert_by_delta(sorted_by_delta(pairs, k - 1), pairs[k])

insert_float(prev, x) ==
    insert_at(prev, x, Cardinality({j \in 1..Len(prev) : Le(prev[j], x)}))

\* line 162: sorted(...) of the first k floats of s
RECURSIVE sorted(_, _)
sorted(s, k) ==
    IF k = 0 THEN <<>>
    ELSE insert_float(sorted(s, k - 1), s[k])

\* line 161: the indexes, in order of delta
indexes_by_delta(deltas) == sorted_by_delta(enumerate(deltas), Len(deltas))

\* line 162: candidates[i] for i in indexes[:n]
nearest_unsorted(candidates, indexes, n) ==
    [j \in 1..(IF n < Len(indexes) THEN n ELSE Len(indexes)) |->
        candidates[indexes[j][1]]]

sorted_all(s) == sorted(s, Len(s))

_nearest_n(candidates, v, n) ==
    sorted_all(nearest_unsorted(candidates,
                                indexes_by_delta(abs_deltas(candidates, v)), n))

\* lines 155-156; candidates is <<exception, values>> of tuple(erange(...))
nearest_of(candidates, v, num) ==
    IF candidates[1] # <<>> THEN candidates
    ELSE <<<<>>, _nearest_n(candidates[2], v, num)>>

\* lines 152-155; p is pow(GEOMETRIC_SCALE_E[series_key], 1.5)
nearest_in_window(key, v, num, p) ==
    nearest_of(erange_tuple(key, FDiv(v, p), FMul(v, p)), v, num)

\* find_nearest_few with the window [value / scale, value * scale].
find_nearest_few_narrow_window(key, v, num) ==
    IF num \notin {1, 2, 3}
    THEN <<<<"ValueError", "num {} is not 1, 2 or 3", <<<<num, 1>>>>>>, <<>>>>
    ELSE nearest_in_window(key, v, num, GEOMETRIC_SCALE_E[key])

find_nearest_few(key, v, num) ==
    IF num \notin {1, 2, 3}
    THEN <<<<"ValueError", "num {} is not 1, 2 or 3", <<<<num, 1>>>>>>, <<>>>>
    ELSE nearest_in_window(key, v, num, pow_1_5(GEOMETRIC_SCALE_E[key]))

\* find_greater_than_or_equal, lines 97-100, from candidates[i] on
RECURSIVE first_greater_than_or_equal(_, _, _)
first_greater_than_or_equal(candidates, v, i) ==
    IF i > Len(candidates) THEN <<AssertionError, <<>>>>
    ELSE IF Ge(candidates[i], v) THEN <<<<>>, <<candidates[i]>>>>
    ELSE first_greater_than_or_equal(candidates, v, i + 1)

\* find_greater_than, lines 105-108, from candidates[i] on
RECURSIVE first_greater_than(_, _, _)
first_greater_than(candidates, v, i) ==
    IF i > Len(candidates) THEN <<AssertionError, <<>>>>
    ELSE IF Gt(candidates[i], v) THEN <<<<>>, <<candidates[i]>>>>
    ELSE first_greater_than(candidates, v, i + 1)

\* find_less_than_or_equal, lines 118-121, from candidates[i] down
RECURSIVE last_less_than_or_equal(_, _, _)
last_less_than_or_equal(candidates, v, i) ==
    IF i < 1 THEN <<AssertionError, <<>>>>
    ELSE IF Le(candidates[i], v) THEN <<<<>>, <<candidates[i]>>>>
    ELSE last_less_than_or_equal(candidates, v, i - 1)

\* find_less_than, lines 131-134, from candidates[i] down
RECURSIVE last_less_than(_, _, _)
last_less_than(candidates, v, i) ==
    IF i < 1 THEN <<AssertionError, <<>>>>
    ELSE IF Lt(candidates[i], v) THEN <<<<>>, <<candidates[i]>>>>
    ELSE last_less_than(candidates, v, i - 1)

\* The four functions below get candidates = find_nearest_few(key, v, 3)
\* as <<exception, values>>; an exception of find_nearest_few propagates.
scan_greater_than_or_equal(candidates, v) ==
    IF candidates[1] # <<>> THEN candidates
    ELSE first_greater_than_or_equal(candidates[2], v, 1)

scan_greater_than(candidates, v) ==
    IF candidates[1] # <<>> THEN candidates
    ELSE first_greater_than(candidates[2], v, 1)

scan_less_than_or_equal(candidates, v) ==
    IF candidates[1] # <<>> THEN candidates
    ELSE last_less_than_or_equal(candidates[2], v, Len(candidates[2]))

scan_less_than(candidates, v) ==
    IF candidates[1] # <<>> THEN candidates
    ELSE last_less_than(candidates[2], v, Len(candidates[2]))

\* find_greater_than_or_equal with the test candidate > value.
find_greater_than_or_equal_strict(key, v) ==
    scan_greater_than(find_nearest_few(key, v, 3), v)

find_greater_than_or_equal(key, v) ==
    scan_greater_than_or_equal(find_nearest_few(key, v, 3), v)

find_greater_than(key, v) ==
    scan_greater_than(find_nearest_few(key, v, 3), v)

find_less_than_or_equal(key, v) ==
    scan_less_than_or_equal(find_nearest_few(key, v, 3), v)

find_less_than(key, v) ==
    scan_less_than(find_nearest_few(key, v, 3), v)

\* nearest[0], nearest being <<exception, values>>
first_of(nearest) ==
    IF nearest[1] # <<>> THEN nearest
    ELSE IF nearest[2] = <<>> THEN <<<<"IndexError", "", <<>>>>, <<>>>>
    ELSE <<<<>>, <<nearest[2][1]>>>>

\* find_nearest_few(series_key, value, num=1)[0]
find_nearest(key, v) == first_of(find_nearest_few(key, v, 1))

-----------------------------------------------------------------------------
(* The state machine.  A behaviour makes one call: either erange, whose    *)
(* generator is then driven one element at a time, or one find_* function. *)

\* Arguments of erange: the grid from zero up, and the non-finite floats.
RangeValues == {Rat(n, GridDen) : n \in 0..MaxRangeNum} \cup {Inf, NaN}

\* Arguments of find_*: the positive grid and the entries of the table.
FindValues(key) ==
    {Rat(n, GridDen) : n \in 1..MaxFindNum}
        \cup {<<series(key)[i], 1>> : i \in 1..Len(series(key))}

Init ==
    /\ series_key = 3 /\ start = Zero /\ stop = Zero
    /\ pc = "none"
    /\ start_decade = 0 /\ start_index = 0
    /\ stop_decade = 0 /\ stop_index = 0
    /\ decade = 0 /\ index = 0
    /\ yielded = <<>>
    /\ error = <<>>
    /\ f_key = 3 /\ value = Zero
    /\ op = <<>>
    /\ result = <<>>

NoCallYet == pc = "none" /\ op = <<>>

\* g = erange(key, a, b).  erange contains a yield, so the call only builds
\* the generator object: no statement of the body runs.
erange_call ==
    /\ NoCallYet
    /\ \E key \in ESeries, a \in RangeValues :
         \E b \in RangeValues \cup (IF isfinite(a) THEN {FMul(a, <<10, 1>>)} ELSE {}) :
            /\ series_key' = key
            /\ start' = a
            /\ stop' = b
    /\ pc' = "created"
    /\ UNCHANGED <<start_decade, start_index, stop_decade, stop_index,
                   decade, index, yielded, error>>
    /\ UNCHANGED find_vars

\* The body raises exc.
GeneratorRaises(exc) ==
    /\ pc' = "raised"
    /\ error' = exc
    /\ UNCHANGED <<start_decade, start_index, stop_decade, stop_index,
                   decade, index, yielded>>

\* The body reaches its next yield or its end; y is the outcome of
\* ToNextYield in the frame with positions sp and ep.
GeneratorRuns(sp, ep, y) ==
    /\ start_decade' = sp[1]
    /\ start_index' = sp[2]
    /\ stop_decade' = ep[1]
    /\ stop_index' = ep[2]
    /\ pc' = IF y[1] THEN "suspended" ELSE "finished"
    /\ decade' = IF y[1] THEN y[2] ELSE decade
    /\ index' = IF y[1] THEN y[3] ELSE index
    /\ yielded' = IF y[1] THEN Append(yielded, y[4]) ELSE yielded
    /\ UNCHANGED error

\* The first next(g) runs the body from its first line.
GeneratorStarts(frame) ==
    IF frame[1] # <<>> THEN GeneratorRaises(frame[1])
    ELSE GeneratorRuns(frame[2], frame[3],
                       ToNextYield(series_key, start, stop, frame[2], frame[3],
                                   frame[2][1], frame[2][2]))

\* next(g): the body runs from where it stands to the next yield, to its
\* end, or to a raise.
erange_next ==
    /\ pc \in {"created", "suspended"}
    /\ IF pc = "created"
       THEN GeneratorStarts(erange_frame(series_key, start, stop))
       ELSE GeneratorRuns(<<start_decade, start_index>>, <<stop_decade, stop_index>>,
                          ToNextYield(series_key, start, stop,
                                      <<start_decade, start_index>>,
                                      <<stop_decade, stop_index>>, decade, index + 1))
    /\ UNCHANGED <<series_key, start, stop>>
    /\ UNCHANGED find_vars

Call_find_nearest_few ==
    /\ NoCallYet
    /\ \E key \in ESeries, num \in 0..MaxNumArg :
         \E v \in FindValues(key) :
            /\ f_key' = key
            /\ value' = v
            /\ op' = <<"find_nearest_few", num>>
            /\ result' = find_nearest_few(key, v, num)
    /\ UNCHANGED gen_vars

Call_find_nearest ==
    /\ NoCallYet
    /\ \E key \in ESeries :
         \E v \in FindValues(key) :
            /\ f_key' = key
            /\ value' = v
            /\ op' = <<"find_nearest", 1>>
            /\ result' = find_nearest(key, v)
    /\ UNCHANGED gen_vars

Call_find_greater_than_or_equal ==
    /\ NoCallYet
    /\ \E key \in ESeries :
         \E v \in FindValues(key) :
            /\ f_key' = key
            /\ value' = v
            /\ op' = <<"find_greater_than_or_equal", 3>>
            /\ result' = find_greater_than_or_equal(key, v)
    /\ UNCHANGED gen_vars

Call_find_greater_than ==
    /\ NoCallYet
    /\ \E key \in ESeries :
         \E v \in FindValues(key) :
            /\ f_key' = key
            /\ value' = v
            /\ op' = <<"find_greater_than", 3>>
            /\ result' = find_greater_than(key, v)
    /\ UNCHANGED gen_vars

Call_find_less_than_or_equal ==
    /\ NoCallYet
    /\ \E key \in ESeries :
         \E v \in FindValues(key) :
            /\ f_key' = key
            /\ value' = v
            /\ op' = <<"find_less_than_or_equal", 3>>
            /\ result' = find_less_than_or_equal(key, v)
    /\ UNCHANGED gen_vars

Call_find_less_than ==
    /\ NoCallYet
    /\ \E key \in ESeries :
         \E v \in FindValues(key) :
            /\ f_key' = key
            /\ value' = v
            /\ op' = <<"find_less_than", 3>>
            /\ result' = find_less_than(key, v)
    /\ UNCHANGED gen_vars

Next ==
    \/ erange_call
    \/ erange_next
    \/ Call_find_nearest_few
    \/ Call_find_nearest
    \/ Call_find_greater_than_or_equal
    \/ Call_find_greater_than
    \/ Call_find_less_than_or_equal
    \/ Call_find_less_than

Spec == Init /\ [][Next]_vars

-----------------------------------------------------------------------------
(* What the properties are stated against: the standard values of a        *)
(* series, defined from the table alone.                                   *)

\* Decades the standard values are enumerated over; every value the model
\* forms lies well inside them.
Decades == -3..5

\* Entry i of the table, scaled into the decade [10^d, 10^(d+1)).
StandardValue(key, d, i) ==
    FMul(<<series(key)[i], 1>>, FPow10(d - (Digits(series(key)[1]) - 1)))

StandardValues ==
    [key \in ESeries |->
        {StandardValue(key, d, i) : d \in Decades, i \in 1..Len(series(key))}]

IsLargestAtMost(key, x, v) ==
    /\ x \in StandardValues[key]
    /\ Le(x, v)
    /\ ~\E s \in StandardValues[key] : Lt(x, s) /\ Le(s, v)

IsSmallestAtLeast(key, x, v) ==
    /\ x \in StandardValues[key]
    /\ Ge(x, v)
    /\ ~\E s \in StandardValues[key] : Lt(s, x) /\ Ge(s, v)

Distance(x, v) == FAbs(FSub(x, v))

Elements(s) == {s[i] : i \in 1..Len(s)}

PowersOfTen == {FPow10(d) : d \in Decades}

\* The range handed to erange violates a precondition of erange.
InvalidRange ==
    IF ~isfinite(start) \/ ~isfinite(stop) THEN TRUE
    ELSE Lt(start, _MINIMUM_E_VALUE) \/ Lt(stop, _MINIMUM_E_VALUE) \/ Gt(start, stop)

-----------------------------------------------------------------------------
(* C1: when the generator of erange(series, start, stop) is exhausted, the *)
(* values it yielded are strictly increasing and are exactly the standard  *)
(* values v of the series with start <= v <= stop.                         *)
C1_ErangeYieldsExactlyTheRange ==
    pc = "finished" =>
        /\ \A i \in 1..(Len(yielded) - 1) : Lt(yielded[i], yielded[i + 1])
        /\ Elements(yielded)
             = {s \in StandardValues[series_key] : Le(start, s) /\ Le(s, stop)}

\* An exhausted range whose two bounds are standard values and which has a
\* power of ten strictly inside.
C1_Witness ==
    /\ pc = "finished"
    /\ Len(yielded) >= 3
    /\ yielded[1] = start
    /\ yielded[Len(yielded)] = stop
    /\ \E i \in 2..(Len(yielded) - 1) : yielded[i] \in PowersOfTen

(* C2: find_less_than_or_equal returns the largest standard value that is  *)
(* <= value and find_greater_than_or_equal the smallest standard value     *)
(* that is >= value; neither raises.                                       *)
C2_TightestBounds ==
    /\ op = <<"find_less_than_or_equal", 3>> =>
          /\ result[1] = <<>>
          /\ IsLargestAtMost(f_key, result[2][1], value)
    /\ op = <<"find_greater_than_or_equal", 3>> =>
          /\ result[1] = <<>>
          /\ IsSmallestAtLeast(f_key, result[2][1], value)

\* find_greater_than_or_equal had to go up to the first value of the next
\* decade.
C2_Witness ==
    /\ op = <<"find_greater_than_or_equal", 3>>
    /\ result[1] = <<>>
    /\ Gt(result[2][1], value)
    /\ result[2][1] \in PowersOfTen

(* C3: find_less_than returns a standard value strictly less than value    *)
(* and find_greater_than a standard value strictly greater than value;     *)
(* neither reaches its assert False.                                       *)
C3_StrictBounds ==
    /\ op = <<"find_less_than", 3>> =>
          /\ result[1] = <<>>
          /\ result[2][1] \in StandardValues[f_key]
          /\ Lt(result[2][1], value)
    /\ op = <<"find_greater_than", 3>> =>
          /\ result[1] = <<>>
          /\ result[2][1] \in StandardValues[f_key]
          /\ Gt(result[2][1], value)

(* C4: the result of find_nearest_few(series, value, num=3) has an element *)
(* strictly less than value and an element strictly greater than value.    *)
C4_ThreeNearestBracketValue ==
    op = <<"find_nearest_few", 3>> =>
        /\ result[1] = <<>>
        /\ \E x \in Elements(result[2]) : Lt(x, value)
        /\ \E x \in Elements(result[2]) : Gt(x, value)

(* C5: find_nearest returns the largest standard value <= value or the     *)
(* smallest standard value >= value, no standard value is strictly closer  *)
(* to value than the result, and a standard value as close as the result   *)
(* is not below it.                                                        *)
C5_NearestIsClosest ==
    op = <<"find_nearest", 1>> =>
        /\ result[1] = <<>>
        /\ \/ IsLargestAtMost(f_key, result[2][1], value)
           \/ IsSmallestAtLeast(f_key, result[2][1], value)
        /\ \A s \in StandardValues[f_key] :
              /\ Le(Distance(result[2][1], value), Distance(s, value))
              /\ Distance(s, value) = Distance(result[2][1], value)
                    => Le(result[2][1], s)

\* value is exactly half way between two adjacent standard values.
C5_Witness ==
    /\ op = <<"find_nearest", 1>>
    /\ result[1] = <<>>
    /\ \E s \in StandardValues[f_key] :
          /\ s # result[2][1]
          /\ Distance(s, value) = Distance(result[2][1], value)

(* C6: for a value taken from the table of the series, find_nearest,       *)
(* find_less_than_or_equal and find_greater_than_or_equal return it.       *)
C6_TableValueRoundTrip ==
    (/\ op \in {<<"find_nearest", 1>>, <<"find_less_than_or_equal", 3>>,
                <<"find_greater_than_or_equal", 3>>}
     /\ value \in {<<series(f_key)[i], 1>> : i \in 1..Len(series(f_key))})
        => result = <<<<>>, <<value>>>>

\* The last entry of a table, whose upper neighbour is in the next decade.
C6_Witness ==
    /\ op = <<"find_nearest", 1>>
    /\ value = <<series(f_key)[Len(series(f_key))], 1>>
    /\ result = <<<<>>, <<value>>>>

(* C7: for num in {1, 2, 3}, find_nearest_few returns exactly num values,  *)
(* in ascending order.                                                     *)
C7_FewCardinality ==
    (op # <<>> /\ op[1] = "find_nearest_few" /\ op[2] \in {1, 2, 3}) =>
        /\ result[1] = <<>>
        /\ Len(result[2]) = op[2]
        /\ \A i \in 1..(Len(result[2]) - 1) : Le(result[2][i], result[2][i + 1])

\* Three values returned from both sides of a decade boundary.
C7_Witness ==
    /\ op = <<"find_nearest_few", 3>>
    /\ result[1] = <<>>
    /\ Len(result[2]) = 3
    /\ \E p \in PowersOfTen : Lt(result[2][1], p) /\ Le(p, result[2][3])

(* C8: erange(series, low, low * 10) yields N values when low * 10 is not  *)
(* among them and N + 1 values when it is, N the length of the table.      *)
C8_DecadeCardinality ==
    (pc = "finished" /\ stop = FMul(start, <<10, 1>>)) =>
        Len(yielded) = Len(series(series_key))
                         + (IF stop \in Elements(yielded) THEN 1 ELSE 0)

\* Both ends of the decade are standard values.
C8_Witness ==
    /\ pc = "finished"
    /\ stop = FMul(start, <<10, 1>>)
    /\ stop \in Elements(yielded)
    /\ Len(yielded) = Len(series(series_key)) + 1

(* C9: a range that violates a precondition makes erange raise an error    *)
(* that reports the offending value (start when start is at fault, stop    *)
(* when stop is at fault), and no value is yielded.                        *)
C9_ErrorReportsOffendingValue ==
    (pc \in {"suspended", "finished", "raised"} /\ InvalidRange) =>
        /\ pc = "raised"
        /\ yielded = <<>>
        /\ error[1] = "ValueError"
        /\ IF ~isfinite(start) THEN start \in Elements(error[3])
           ELSE IF ~isfinite(stop) THEN stop \in Elements(error[3])
           ELSE IF Lt(start, _MINIMUM_E_VALUE) THEN start \in Elements(error[3])
           ELSE IF Lt(stop, _MINIMUM_E_VALUE) THEN stop \in Elements(error[3])
           ELSE start \in Elements(error[3]) /\ stop \in Elements(error[3])

(* C10: the invalid-range error is raised by the call of erange itself: a  *)
(* call with an invalid range never returns a generator object.            *)
C10_ErrorRaisedAtCall ==
    pc = "created" => ~InvalidRange

====
